---- MODULE Spec2Model ----
(***************************************************************************)
(* Model of python/lsst/sims/utils/m5_flat_sed.py: the two entry points    *)
(* m5_scale and m5_flat_sed, and the table of per-band constants that      *)
(* m5_flat_sed attaches to itself on its first call.                       *)
(*                                                                         *)
(* Numbers.  The code computes in IEEE doubles.  The model keeps two       *)
(* kinds of number:                                                        *)
(*   - a "magnitude" (anything the code adds or subtracts: Cm, musky,      *)
(*     airmass, the result of a log10): a fixed-point integer in           *)
(*     thousandths, or one of NaN, +Inf, -Inf;                             *)
(*   - a "flux" (anything the code multiplies or divides: Tscale, the      *)
(*     result of a power of ten): a decimal float s * (m/1000) * 10^e      *)
(*     with a four-digit mantissa m in 1000..9999, or 0, NaN, +Inf, -Inf.  *)
(* Every operation rounds towards minus infinity (mantissas: towards 0).   *)
(***************************************************************************)
EXTENDS Integers, Sequences, FiniteSets, TLC

(***************************************************************************)
(* Magnitudes                                                              *)
(***************************************************************************)
Num(v) == [k |-> "num", v |-> v]
NaN == [k |-> "nan", v |-> 0]
PosInf == [k |-> "inf", v |-> 1]
NegInf == [k |-> "inf", v |-> -1]

\* a + b on doubles: NaN is contagious, Inf + (-Inf) is NaN
MagAdd(a, b) ==
    IF a.k = "nan" \/ b.k = "nan" THEN NaN
    ELSE IF a.k = "inf" /\ b.k = "inf" THEN (IF a.v = b.v THEN a ELSE NaN)
    ELSE IF a.k = "inf" THEN a
    ELSE IF b.k = "inf" THEN b
    ELSE Num(a.v + b.v)

\* -a
MagNeg(a) == IF a.k = "nan" THEN NaN ELSE [k |-> a.k, v |-> 0 - a.v]

\* a - b
MagSub(a, b) == MagAdd(a, MagNeg(b))

\* (n/d) * a for a literal factor n/d of the code (0.8, 1.25, 2.5, 0.5, 1.1, -0.4), d > 0
MagScale(n, d, a) ==
    IF a.k = "nan" THEN NaN
    ELSE IF a.k = "inf" THEN (IF n = 0 THEN NaN ELSE IF n > 0 THEN a ELSE MagNeg(a))
    ELSE Num((n * a.v) \div d)

\* a * b for two magnitudes in thousandths (kAtm * (airmass - 1.0))
MagMul(a, b) ==
    IF a.k = "nan" \/ b.k = "nan" THEN NaN
    ELSE IF a.k = "inf" \/ b.k = "inf" THEN
        (IF a.v = 0 \/ b.v = 0 THEN NaN
         ELSE IF (a.v > 0) = (b.v > 0) THEN PosInf ELSE NegInf)
    ELSE Num((a.v * b.v) \div 1000)

\* a <= b on doubles: every comparison with NaN is false
MagLE(a, b) ==
    IF a.k = "nan" \/ b.k = "nan" THEN FALSE
    ELSE IF a.k = "inf" THEN (a.v < 0 \/ b = PosInf)
    ELSE IF b.k = "inf" THEN b.v > 0
    ELSE a.v <= b.v

(***************************************************************************)
(* Fluxes                                                                  *)
(***************************************************************************)
Flux(s, m, e) == [k |-> "num", s |-> s, m |-> m, e |-> e]
FZero == [k |-> "num", s |-> 0, m |-> 0, e |-> 0]
FNaN == [k |-> "nan", s |-> 0, m |-> 0, e |-> 0]
FInf(s) == [k |-> "inf", s |-> s, m |-> 0, e |-> 0]

Tens == <<1, 10, 100, 1000, 10000, 100000>>

RECURSIVE Normal(_, _, _)
\* s * (m/1000) * 10^e with any m >= 0, brought back to a mantissa in 1000..9999
Normal(s, m, e) ==
    IF m = 0 \/ s = 0 THEN FZero
    ELSE IF m >= 10000 THEN Normal(s, m \div 10, e + 1)
    ELSE IF m < 1000 THEN Normal(s, m * 10, e - 1)
    ELSE Flux(s, m, e)

\* the integer n as a flux
FromInt(n) == IF n = 0 THEN FZero ELSE IF n > 0 THEN Normal(1, n * 1000, 0) ELSE Normal(-1, (0 - n) * 1000, 0)

\* a * b
FMul(a, b) ==
    IF a.k = "nan" \/ b.k = "nan" THEN FNaN
    ELSE IF a.k = "inf" \/ b.k = "inf" THEN
        (IF a.s = 0 \/ b.s = 0 THEN FNaN ELSE FInf(a.s * b.s))
    ELSE Normal(a.s * b.s, (a.m * b.m) \div 1000, a.e + b.e)

\* a / b where b is a numpy double: x/0 is +-Inf, 0/0 is NaN, no exception
FDiv(a, b) ==
    IF a.k = "nan" \/ b.k = "nan" THEN FNaN
    ELSE IF a.k = "inf" THEN (IF b.k = "inf" THEN FNaN ELSE FInf(IF b.s < 0 THEN 0 - a.s ELSE a.s))
    ELSE IF b.k = "inf" THEN FZero
    ELSE IF b.s = 0 THEN (IF a.s = 0 THEN FNaN ELSE FInf(a.s))
    ELSE IF a.s = 0 THEN FZero
    ELSE Normal(a.s * b.s, (a.m * 10000) \div b.m, a.e - b.e - 1)

\* a + b
FAdd(a, b) ==
    IF a.k = "nan" \/ b.k = "nan" THEN FNaN
    ELSE IF a.k = "inf" /\ b.k = "inf" THEN (IF a.s = b.s THEN a ELSE FNaN)
    ELSE IF a.k = "inf" THEN a
    ELSE IF b.k = "inf" THEN b
    ELSE IF a.s = 0 THEN b
    ELSE IF b.s = 0 THEN a
    ELSE LET hi == IF a.e >= b.e THEN a ELSE b
             lo == IF a.e >= b.e THEN b ELSE a
             d  == hi.e - lo.e
             lm == IF d > 4 THEN 0 ELSE lo.m \div Tens[d + 1]
             t  == hi.s * hi.m + lo.s * lm
         IN  IF t = 0 THEN FZero
             ELSE IF t > 0 THEN Normal(1, t, hi.e)
             ELSE Normal(-1, 0 - t, hi.e)

\* a - b
FSub(a, b) == FAdd(a, [b EXCEPT !.s = 0 - b.s])

(***************************************************************************)
(* np.log10 and the powers of ten                                          *)
(***************************************************************************)
RECURSIVE LogBits(_, _, _)
\* the first k binary digits of log10(y/1000), 1000 <= y <= 9999, after the digits r:
\* square, and take a digit 1 when the square reaches 10
LogBits(y, k, r) ==
    IF k = 0 THEN r
    ELSE LET sq == (y * y) \div 1000
         IN  IF sq >= 10000 THEN LogBits(sq \div 10, k - 1, 2 * r + 1)
             ELSE LogBits(sq, k - 1, 2 * r)

\* log10(m/1000) in thousandths, 0..999, for a mantissa m in 1000..9999
Log10Frac(m) == (LogBits(m, 10, 0) * 1000) \div 1024

RECURSIVE PowSearch(_, _, _)
\* the largest mantissa in lo..hi whose log10 is at most f (Log10Frac(lo) <= f)
PowSearch(f, lo, hi) ==
    IF lo = hi THEN lo
    ELSE LET mid == (lo + hi + 1) \div 2
         IN  IF Log10Frac(mid) <= f THEN PowSearch(f, mid, hi)
             ELSE PowSearch(f, lo, mid - 1)

\* the mantissa of 10^(f/1000), 0 <= f <= 999
Pow10Frac(f) == PowSearch(f, 1000, 9999)

\* np.log10(x) of a flux: NaN below 0, -Inf at 0 (numpy warns, it does not raise)
Log10(x) ==
    IF x.k = "nan" THEN NaN
    ELSE IF x.k = "inf" THEN (IF x.s > 0 THEN PosInf ELSE NaN)
    ELSE IF x.s < 0 THEN NaN
    ELSE IF x.s = 0 THEN NegInf
    ELSE Num(1000 * x.e + Log10Frac(x.m))

\* np.power(10.0, a) and 10**a of a magnitude a (a numpy double: overflow is Inf)
Pow10(a) ==
    IF a.k = "nan" THEN FNaN
    ELSE IF a.k = "inf" THEN (IF a.v > 0 THEN FInf(1) ELSE FZero)
    ELSE Flux(1, Pow10Frac(a.v % 1000), a.v \div 1000)

\* a magnitude in thousandths (FWHMeff, 0.7) read as a flux
FromMilli(v) == IF v = 0 THEN FZero ELSE IF v > 0 THEN Normal(1, v, 0) ELSE Normal(-1, 0 - v, 0)

(***************************************************************************)
(* Outcomes of a call: a returned m5, or an exception and no value         *)
(***************************************************************************)
None == [k |-> "none", v |-> 0]
Return(m5) == [err |-> "none", m5 |-> m5]
Raise(e) == [err |-> e, m5 |-> None]

(***************************************************************************)
(* m5_scale (lines 6-55).  expTime and baseExpTime are Python floats in    *)
(* seconds; airmass, musky, darkSkyMag, Cm, dCm_infinity, kAtm, tauCloud   *)
(* are in thousandths; FWHMeff is [v |-> thousandths, np |-> whether it is *)
(* a numpy value (an ndarray, a float64) or a Python float].               *)
(***************************************************************************)
\* line 46
ScaleTscale(expTime, baseExpTime, musky, darkSkyMag) ==
    FMul(FDiv(FromInt(expTime), FromInt(baseExpTime)),
         Pow10(MagScale(-4, 10, MagSub(Num(musky), Num(darkSkyMag)))))

\* lines 47-49
ScaleDCm(dCm_infinity, Tscale) ==
    MagSub(MagAdd(Num(0), Num(dCm_infinity)),
           MagScale(125, 100,
                    Log10(FAdd(FromInt(1),
                               FDiv(FSub(Pow10(MagScale(8, 10, Num(dCm_infinity))), FromInt(1)),
                                    Tscale)))))

\* the single-exposure value with the exposure time normalised to 15 s, the default baseExpTime
ScaleM5_ExpTime15(Cm, dCm, musky, FWHMeff, expTime, kAtm, airmass, tauCloud) ==
    MagSub(MagSub(MagAdd(MagAdd(MagAdd(MagAdd(Num(Cm), dCm),
                                       MagScale(5, 10, MagSub(Num(musky), Num(21000)))),
                                MagScale(25, 10, Log10(FDiv(FromMilli(700), FromMilli(FWHMeff.v))))),
                         MagScale(125, 100, Log10(FDiv(FromInt(expTime), FromInt(15))))),
                  MagMul(Num(kAtm), MagSub(Num(airmass), Num(1000)))),
           MagScale(11, 10, Num(tauCloud)))

\* lines 51-52
ScaleM5(Cm, dCm, musky, FWHMeff, expTime, kAtm, airmass, tauCloud) ==
    MagSub(MagSub(MagAdd(MagAdd(MagAdd(MagAdd(Num(Cm), dCm),
                                       MagScale(5, 10, MagSub(Num(musky), Num(21000)))),
                                MagScale(25, 10, Log10(FDiv(FromMilli(700), FromMilli(FWHMeff.v))))),
                         MagScale(125, 100, Log10(FDiv(FromInt(expTime), FromInt(30))))),
                  MagMul(Num(kAtm), MagSub(Num(airmass), Num(1000)))),
           MagScale(11, 10, Num(tauCloud)))

\* lines 53-54
ScaleCoadd(nexp, m5) ==
    IF nexp > 1 THEN MagScale(125, 100, Log10(FMul(FromInt(nexp), Pow10(MagScale(8, 10, m5)))))
    ELSE m5

\* every division treated as a numpy division
PyZeroDivNever(divisorIsZero, divisorIsNumpy) == FALSE

\* a Python float divided by a Python float 0 raises; a numpy operand gives Inf or NaN
PyZeroDiv(divisorIsZero, divisorIsNumpy) == divisorIsZero /\ ~divisorIsNumpy

m5_scale(expTime, nexp, airmass, FWHMeff, musky, darkSkyMag, Cm, dCm_infinity, kAtm, tauCloud, baseExpTime) ==
    IF PyZeroDiv(baseExpTime = 0, FALSE) THEN Raise("ZeroDivisionError")
    ELSE LET Tscale == ScaleTscale(expTime, baseExpTime, musky, darkSkyMag)
             dCm    == ScaleDCm(dCm_infinity, Tscale)
         IN  IF PyZeroDiv(FWHMeff.v = 0, FWHMeff.np) THEN Raise("ZeroDivisionError")
             ELSE Return(ScaleCoadd(nexp,
                      ScaleM5(Cm, dCm, musky, FWHMeff, expTime, kAtm, airmass, tauCloud)))

(***************************************************************************)
(* m5_flat_sed (lines 58-134)                                              *)
(***************************************************************************)
Bands == {"u", "g", "r", "i", "z", "y"}

\* lines 97-121: the values the first call attaches to the function object
\* a table that also answers for a band outside the six
TableWithDefault ==
    [baseExpTime  |-> 30,
     Cm           |-> [u |-> 23283, g |-> 24493, r |-> 24483, i |-> 24358, z |-> 24180, y |-> 23747,
                       x |-> 24000],
     dCm_infinity |-> [u |-> 414, g |-> 100, r |-> 52, i |-> 38, z |-> 26, y |-> 19, x |-> 50],
     kAtm         |-> [u |-> 492, g |-> 213, r |-> 126, i |-> 96, z |-> 69, y |-> 170, x |-> 100],
     msky         |-> [u |-> 22989, g |-> 22256, r |-> 21196, i |-> 20478, z |-> 19600, y |-> 18612,
                       x |-> 21000]]

Table ==
    [baseExpTime  |-> 30,
     Cm           |-> [u |-> 23283, g |-> 24493, r |-> 24483, i |-> 24358, z |-> 24180, y |-> 23747],
     dCm_infinity |-> [u |-> 414, g |-> 100, r |-> 52, i |-> 38, z |-> 26, y |-> 19],
     kAtm         |-> [u |-> 492, g |-> 213, r |-> 126, i |-> 96, z |-> 69, y |-> 170],
     msky         |-> [u |-> 22989, g |-> 22256, r |-> 21196, i |-> 20478, z |-> 19600, y |-> 18612]]

AttrNames == {"baseExpTime", "Cm", "dCm_infinity", "kAtm", "msky"}

\* setattr(m5_flat_sed, name, value)
SetAttr(at, name, value) == (name :> value) @@ at

\* hasattr(m5_flat_sed, name)
HasAttr(at, name) == name \in DOMAIN at

\* the block of line 92 entered on every call
NeedsInitAlways(at) == TRUE

\* line 92: not hasattr(m5_flat_sed, 'Cm')
NeedsInit(at) == ~HasAttr(at, "Cm")

\* what reading m5_flat_sed.<name>[key] raises, if anything
LookupErr(at, name, key) ==
    IF ~HasAttr(at, name) THEN "AttributeError"
    ELSE IF key \notin DOMAIN at[name] THEN "KeyError"
    ELSE "none"

\* the first of two errors in evaluation order
First(e1, e2) == IF e1 # "none" THEN e1 ELSE e2

\* line 124: what it raises
FlatTscaleErr(at, a) ==
    First(IF ~HasAttr(at, "baseExpTime") THEN "AttributeError"
          ELSE IF PyZeroDiv(at.baseExpTime = 0, FALSE) THEN "ZeroDivisionError"
          ELSE "none",
          LookupErr(at, "msky", a.visitFilter))

\* line 124 with the exposure time scaled by 15 s, the default baseExpTime of m5_scale
FlatTscaleBase15(at, a) ==
    FMul(FDiv(FromInt(a.expTime), FromInt(15)),
         Pow10(MagScale(-4, 10, MagSub(Num(a.musky), Num(at.msky[a.visitFilter])))))

\* line 124: its value
FlatTscale(at, a) ==
    FMul(FDiv(FromInt(a.expTime), FromInt(at.baseExpTime)),
         Pow10(MagScale(-4, 10, MagSub(Num(a.musky), Num(at.msky[a.visitFilter])))))

\* lines 125-127
FlatDCmErr(at, a) == LookupErr(at, "dCm_infinity", a.visitFilter)

FlatDCm(at, a, Tscale) ==
    MagSub(MagAdd(Num(0), Num(at.dCm_infinity[a.visitFilter])),
           MagScale(125, 100,
                    Log10(FAdd(FromInt(1),
                               FDiv(FSub(Pow10(MagScale(8, 10, Num(at.dCm_infinity[a.visitFilter]))),
                                         FromInt(1)),
                                    Tscale)))))

\* lines 129-130
FlatM5Err(at, a) ==
    First(LookupErr(at, "Cm", a.visitFilter),
          First(IF PyZeroDiv(a.FWHMeff.v = 0, a.FWHMeff.np) THEN "ZeroDivisionError" ELSE "none",
                LookupErr(at, "kAtm", a.visitFilter)))

\* lines 129-130 with the extinction added instead of subtracted
FlatM5PlusExtinction(at, a, dCm) ==
    MagSub(MagAdd(MagAdd(MagAdd(MagAdd(MagAdd(Num(at.Cm[a.visitFilter]), dCm),
                                       MagScale(5, 10, MagSub(Num(a.musky), Num(21000)))),
                                MagScale(25, 10, Log10(FDiv(FromMilli(700), FromMilli(a.FWHMeff.v))))),
                         MagScale(125, 100, Log10(FDiv(FromInt(a.expTime), FromInt(30))))),
                  MagMul(Num(at.kAtm[a.visitFilter]), MagSub(Num(a.airmass), Num(1000)))),
           MagScale(11, 10, Num(a.tauCloud)))

FlatM5(at, a, dCm) ==
    MagSub(MagSub(MagAdd(MagAdd(MagAdd(MagAdd(Num(at.Cm[a.visitFilter]), dCm),
                                       MagScale(5, 10, MagSub(Num(a.musky), Num(21000)))),
                                MagScale(25, 10, Log10(FDiv(FromMilli(700), FromMilli(a.FWHMeff.v))))),
                         MagScale(125, 100, Log10(FDiv(FromInt(a.expTime), FromInt(30))))),
                  MagMul(Num(at.kAtm[a.visitFilter]), MagSub(Num(a.airmass), Num(1000)))),
           MagScale(11, 10, Num(a.tauCloud)))

\* lines 132-133 with the exposures combined in amplitude, not in flux
FlatCoaddAmplitude(a, m5) ==
    IF a.nexp > 1 THEN MagScale(25, 10, Log10(FMul(FromInt(a.nexp), Pow10(MagScale(4, 10, m5)))))
    ELSE m5

\* lines 132-133
FlatCoadd(a, m5) ==
    IF a.nexp > 1 THEN MagScale(125, 100, Log10(FMul(FromInt(a.nexp), Pow10(MagScale(8, 10, m5)))))
    ELSE m5

\* lines 97-121 as one block, on a function object that has the attributes at
InitBlock(at) ==
    SetAttr(SetAttr(SetAttr(SetAttr(SetAttr(at,
        "baseExpTime", Table.baseExpTime),
        "Cm", Table.Cm),
        "dCm_infinity", Table.dCm_infinity),
        "kAtm", Table.kAtm),
        "msky", Table.msky)

\* lines 92-134 run without interruption on a function object with the attributes at
FlatRun(at, a) ==
    LET t0 == IF NeedsInit(at) THEN InitBlock(at) ELSE at
    IN  IF FlatTscaleErr(t0, a) # "none" THEN Raise(FlatTscaleErr(t0, a))
        ELSE IF FlatDCmErr(t0, a) # "none" THEN Raise(FlatDCmErr(t0, a))
        ELSE IF FlatM5Err(t0, a) # "none" THEN Raise(FlatM5Err(t0, a))
        ELSE Return(FlatCoadd(a, FlatM5(t0, a, FlatDCm(t0, a, FlatTscale(t0, a)))))

(***************************************************************************)
(* The inputs the callers draw from                                        *)
(***************************************************************************)
NumThreads == 2
MaxNexp == 2

Threads == 1..NumThreads
\* the thread of a single-threaded process
MainThread == CHOOSE t \in Threads : \A u \in Threads : t <= u

Filters == Bands \cup {"x"}
Seeings == {[v |-> 700, np |-> FALSE], [v |-> 0, np |-> FALSE], [v |-> 0, np |-> TRUE]}
ExpTimes == {-30, 60}
Airmasses == {900, 1500}
Skies == {21000, 22000}
Clouds == {0, 300}

FlatArgs ==
    [visitFilter : Filters, musky : Skies, FWHMeff : Seeings, expTime : ExpTimes,
     airmass : Airmasses, nexp : 1..MaxNexp, tauCloud : Clouds]

\* concurrent callers: the band alone varies
ConcArgs ==
    [visitFilter : {"r", "x"}, musky : {21000}, FWHMeff : {[v |-> 700, np |-> FALSE]},
     expTime : {30}, airmass : {1000}, nexp : {1}, tauCloud : {0}]

\* the per-band constants a caller of m5_scale supplies: a band of the table, or its own
ScaleConsts ==
    {[darkSkyMag |-> Table.msky[b], Cm |-> Table.Cm[b], dCm_infinity |-> Table.dCm_infinity[b],
      kAtm |-> Table.kAtm[b]] : b \in {"u", "r"}}
    \cup {[darkSkyMag |-> 21000, Cm |-> 24000, dCm_infinity |-> 50, kAtm |-> -100]}

ScaleArgs ==
    [expTime : ExpTimes, nexp : 1..MaxNexp, airmass : Airmasses, FWHMeff : Seeings,
     musky : Skies, consts : ScaleConsts, tauCloud : Clouds, baseExpTime : {15, 30}]

(***************************************************************************)
(* State                                                                   *)
(***************************************************************************)
VARIABLES
    concurrent, \* whether several threads may be inside m5_flat_sed at once
    attrs,      \* the attributes of the function object m5_flat_sed: name -> value
    call,       \* per thread: the frame of its call of m5_flat_sed (pc, args, locals)
    last,       \* the call that has just returned or raised, until its caller takes the outcome
    called,     \* whether a call of m5_flat_sed has returned or raised
    inits,      \* history: the visitFilter of each call that entered the block of line 92
    writes      \* history: the number of assignments to attributes of m5_flat_sed

vars == <<concurrent, attrs, call, last, called, inits, writes>>

NoArgs == [visitFilter |-> "", musky |-> 0, FWHMeff |-> [v |-> 0, np |-> FALSE], expTime |-> 0,
           airmass |-> 0, nexp |-> 0, tauCloud |-> 0]
Idle == [pc |-> "idle", args |-> NoArgs, skipped |-> FALSE, Tscale |-> FZero, dCm |-> Num(0),
         m5 |-> Num(0)]
NoCall == [fn |-> "none", args |-> NoArgs, out |-> Raise("none")]

EmptyAttrs == [n \in {} |-> 0]

InitVars ==
    /\ attrs = EmptyAttrs
    /\ call = [t \in Threads |-> Idle]
    /\ last = NoCall
    /\ called = FALSE
    /\ inits = <<>>
    /\ writes = 0

Init == concurrent = FALSE /\ InitVars
InitConc == concurrent = TRUE /\ InitVars

\* the call of thread t ends: it returns or raises
Finish(t, out) ==
    /\ call' = [call EXCEPT ![t] = Idle]
    /\ last' = [fn |-> "m5_flat_sed", args |-> call[t].args, out |-> out]
    /\ called' = TRUE

\* thread t goes on to line pc with its frame changed to f
Goto(t, f, pc) ==
    /\ call' = [call EXCEPT ![t] = [f EXCEPT !.pc = pc]]
    /\ UNCHANGED <<last, called>>

\* a caller enters m5_flat_sed (line 58)
Call(t) ==
    /\ call[t].pc = "idle"
    /\ concurrent \/ (t = MainThread /\ \A u \in Threads : call[u].pc = "idle")
    /\ last = NoCall
    /\ \E a \in (IF concurrent THEN ConcArgs ELSE FlatArgs) :
          call' = [call EXCEPT ![t] = [Idle EXCEPT !.pc = "l92", !.args = a]]
    /\ UNCHANGED <<concurrent, attrs, last, called, inits, writes>>

\* line 92: if not hasattr(m5_flat_sed, 'Cm')
CheckHasattr(t) ==
    /\ call[t].pc = "l92"
    /\ IF NeedsInit(attrs)
       THEN /\ Goto(t, call[t], "l97")
            /\ inits' = Append(inits, call[t].args.visitFilter)
       ELSE /\ Goto(t, [call[t] EXCEPT !.skipped = TRUE], "l124")
            /\ UNCHANGED inits
    /\ UNCHANGED <<concurrent, attrs, writes>>

\* one assignment of the block: m5_flat_sed.<name> = value
Assign(t, pc, name, value, next) ==
    /\ call[t].pc = pc
    /\ attrs' = SetAttr(attrs, name, value)
    /\ writes' = writes + 1
    /\ Goto(t, call[t], next)
    /\ UNCHANGED <<concurrent, inits>>

\* line 97
SetBaseExpTime(t) == Assign(t, "l97", "baseExpTime", Table.baseExpTime, "l98")
\* lines 98-103
SetCm(t) == Assign(t, "l98", "Cm", Table.Cm, "l104")
\* lines 104-109
SetdCm_infinity(t) == Assign(t, "l104", "dCm_infinity", Table.dCm_infinity, "l110")
\* lines 110-115
SetkAtm(t) == Assign(t, "l110", "kAtm", Table.kAtm, "l116")
\* lines 116-121 keeping the sky of the caller's band alone
SetmskyOneBand(t) ==
    Assign(t, "l116", "msky",
           [b \in {call[t].args.visitFilter} \cap Bands |-> Table.msky[b]], "l124")

\* lines 116-121
Setmsky(t) == Assign(t, "l116", "msky", Table.msky, "l124")

\* a line that computes: it raises err, or goes on to next with the frame f
Line(t, pc, err, f, next) ==
    /\ call[t].pc = pc
    /\ IF err # "none" THEN Finish(t, Raise(err)) ELSE Goto(t, f, next)
    /\ UNCHANGED <<concurrent, attrs, inits, writes>>

\* line 124
Tscale(t) ==
    Line(t, "l124", FlatTscaleErr(attrs, call[t].args),
         [call[t] EXCEPT !.Tscale = FlatTscale(attrs, call[t].args)], "l125")

\* lines 125-127
DCm(t) ==
    Line(t, "l125", FlatDCmErr(attrs, call[t].args),
         [call[t] EXCEPT !.dCm = FlatDCm(attrs, call[t].args, call[t].Tscale)], "l129")

\* lines 129-130
M5(t) ==
    Line(t, "l129", FlatM5Err(attrs, call[t].args),
         [call[t] EXCEPT !.m5 = FlatM5(attrs, call[t].args, call[t].dCm)], "l132")

\* lines 132-133
Coadd(t) ==
    Line(t, "l132", "none", [call[t] EXCEPT !.m5 = FlatCoadd(call[t].args, call[t].m5)], "l134")

\* line 134
ReturnM5(t) ==
    /\ call[t].pc = "l134"
    /\ Finish(t, Return(call[t].m5))
    /\ UNCHANGED <<concurrent, attrs, inits, writes>>

\* a call of m5_scale: it touches no shared state and runs in one step
CallScale ==
    /\ \A u \in Threads : call[u].pc = "idle"
    /\ last = NoCall
    /\ \E a \in ScaleArgs :
          last' = [fn |-> "m5_scale", args |-> a,
                   out |-> m5_scale(a.expTime, a.nexp, a.airmass, a.FWHMeff, a.musky,
                                    a.consts.darkSkyMag, a.consts.Cm, a.consts.dCm_infinity,
                                    a.consts.kAtm, a.tauCloud, a.baseExpTime)]
    /\ UNCHANGED <<concurrent, attrs, call, called, inits, writes>>

\* the caller takes the outcome of the call that has just ended
TakeOutcome ==
    /\ last # NoCall
    /\ last' = NoCall
    /\ UNCHANGED <<concurrent, attrs, call, called, inits, writes>>

Next ==
    \/ \E t \in Threads :
          \/ Call(t) \/ CheckHasattr(t)
          \/ SetBaseExpTime(t) \/ SetCm(t) \/ SetdCm_infinity(t) \/ SetkAtm(t) \/ Setmsky(t)
          \/ Tscale(t) \/ DCm(t) \/ M5(t) \/ Coadd(t) \/ ReturnM5(t)
    \/ CallScale
    \/ TakeOutcome

\* a single-threaded process
Spec == Init /\ [][Next]_vars

\* a process whose threads call m5_flat_sed concurrently
SpecConc == InitConc /\ [][Next]_vars

(***************************************************************************)
(* Properties                                                              *)
(***************************************************************************)
LastFlat == last.fn = "m5_flat_sed"
LastScale == last.fn = "m5_scale"

\* m5_scale on the arguments a of a call, with nexp and airmass replaced
ScaleOf(a, nexp, airmass) ==
    m5_scale(a.expTime, nexp, airmass, a.FWHMeff, a.musky, a.consts.darkSkyMag, a.consts.Cm,
             a.consts.dCm_infinity, a.consts.kAtm, a.tauCloud, a.baseExpTime)

\* C1: a call of m5_flat_sed whose visitFilter is none of u, g, r, i, z, y ends in a
\* KeyError and returns no value, whatever calls came before it (none included).
C1_UnknownBandRaisesKeyError ==
    (LastFlat /\ last.args.visitFilter \notin {"u", "g", "r", "i", "z", "y"})
        => last.out = Raise("KeyError")

\* the very first call of the process names the band x and has ended in a KeyError
C1_Witness ==
    /\ LastFlat /\ last.args.visitFilter = "x"
    /\ inits = <<"x">>
    /\ last.out.err = "KeyError" /\ last.out.m5 = None

\* C2: in a sequential run the table is built exactly once, by the first call, and no
\* later call writes to it: once a call has ended, the block of line 92 has been entered
\* once, five attributes have been assigned in all, and the attributes are the fixed table.
C2_TableBuiltOnce ==
    called => /\ Len(inits) = 1
              /\ writes = 5
              /\ attrs = Table
              /\ attrs.baseExpTime = 30

\* a later call, for another band than the first, has skipped the block and reached its return
C2_Witness ==
    /\ called /\ writes = 5
    /\ \E t \in Threads : /\ call[t].pc = "l134" /\ call[t].skipped
                          /\ inits # <<call[t].args.visitFilter>>

\* C3: m5_flat_sed for a band b of the table ends as m5_scale does on the same conditions
\* with darkSkyMag, Cm, dCm_infinity, kAtm of b and baseExpTime = 30.
C3_FlatIsScaleOfBand ==
    (LastFlat /\ last.args.visitFilter \in Bands) =>
        LET a == last.args
            b == a.visitFilter
        IN  last.out = m5_scale(a.expTime, a.nexp, a.airmass, a.FWHMeff, a.musky, Table.msky[b],
                                Table.Cm[b], Table.dCm_infinity[b], Table.kAtm[b], a.tauCloud, 30)

\* a two-exposure call for a band of the table has returned a finite m5
C3_Witness ==
    /\ LastFlat /\ last.args.visitFilter \in Bands
    /\ last.args.nexp = 2 /\ last.args.expTime = 60
    /\ last.out.err = "none" /\ last.out.m5.k = "num"

\* C4: the outcome of a call of m5_flat_sed is the outcome the same arguments have as the
\* first call of a fresh process, whatever calls came before it.
C4_HistoryIndependent ==
    LastFlat => last.out = FlatRun(EmptyAttrs, last.args)

\* a call has returned a finite m5 on a table that a call for another band built
C4_Witness ==
    /\ LastFlat /\ last.args.visitFilter \in Bands
    /\ Len(inits) = 1 /\ inits[1] # last.args.visitFilter
    /\ last.out.err = "none" /\ last.out.m5.k = "num"

\* 1.25 * log10(N * 10^(0.8 * x))
CoaddOf(N, x) == MagScale(125, 100, Log10(FMul(FromInt(N), Pow10(MagScale(8, 10, x)))))

\* the outcome of the call that has just ended, had its nexp been 1
SingleOutcome ==
    IF LastFlat THEN FlatRun(attrs, [last.args EXCEPT !.nexp = 1])
    ELSE ScaleOf(last.args, 1, last.args.airmass)

\* C5: with nexp = N > 1 both entry points return 1.25 * log10(N * 10^(0.8 * x)), x being
\* what the same call returns with nexp = 1.
C5_Coadd ==
    (last.fn # "none" /\ last.args.nexp > 1 /\ last.out.err = "none") =>
        last.out.m5 = CoaddOf(last.args.nexp, SingleOutcome.m5)

\* a two-exposure call of m5_flat_sed has returned a finite m5, deeper than one exposure
C5_Witness ==
    /\ LastFlat /\ last.args.nexp = 2
    /\ last.out.err = "none" /\ last.out.m5.k = "num"
    /\ SingleOutcome.m5.k = "num" /\ SingleOutcome.m5.v < last.out.m5.v

\* Cm + dCm + 0.5*(musky - 21.0) + 2.5*log10(0.7/FWHMeff) + 1.25*log10(expTime/30.0)
\*    - kAtm*(airmass - 1.0) - 1.1*tauCloud
SingleExposure(Cm, dCm, musky, FWHMeff, expTime, kAtm, airmass, tauCloud) ==
    LET sky     == MagScale(5, 10, MagSub(Num(musky), Num(21000)))
        seeing  == MagScale(25, 10, Log10(FDiv(FromMilli(700), FromMilli(FWHMeff))))
        time    == MagScale(125, 100, Log10(FDiv(FromInt(expTime), FromInt(30))))
        extinct == MagMul(Num(kAtm), MagSub(Num(airmass), Num(1000)))
        cloud   == MagScale(11, 10, Num(tauCloud))
    IN  MagSub(MagSub(MagAdd(MagAdd(MagAdd(MagAdd(Num(Cm), dCm), sky), seeing), time), extinct),
               cloud)

\* C6: with nexp = 1 both entry points return the single-exposure value unchanged, its
\* exposure-time term normalised to 30 s whatever baseExpTime is.
C6_SingleExposure ==
    (last.fn # "none" /\ last.args.nexp = 1 /\ last.out.err = "none") =>
        LET a == last.args
        IN  last.out.m5 =
              IF LastFlat
              THEN SingleExposure(Table.Cm[a.visitFilter],
                                  FlatDCm(attrs, a, FlatTscale(attrs, a)),
                                  a.musky, a.FWHMeff.v, a.expTime, Table.kAtm[a.visitFilter],
                                  a.airmass, a.tauCloud)
              ELSE SingleExposure(a.consts.Cm,
                                  ScaleDCm(a.consts.dCm_infinity,
                                           ScaleTscale(a.expTime, a.baseExpTime, a.musky,
                                                       a.consts.darkSkyMag)),
                                  a.musky, a.FWHMeff.v, a.expTime, a.consts.kAtm,
                                  a.airmass, a.tauCloud)

\* a one-exposure call of m5_scale with baseExpTime = 15 has returned a finite m5
C6_Witness ==
    /\ LastScale /\ last.args.nexp = 1 /\ last.args.baseExpTime = 15 /\ last.args.expTime = 60
    /\ last.out.err = "none" /\ last.out.m5.k = "num"

\* C7 as stated: no input makes either entry point raise, but a band outside the table.
C7_NoErrorButKeyError ==
    /\ LastScale => last.out.err = "none"
    /\ LastFlat => last.out.err =
                     (IF last.args.visitFilter \in Bands THEN "none" ELSE "KeyError")

\* C7 as amended: a negative expTime and an airmass below 1 pass through; FWHMeff = 0 passes
\* through (to Inf) as a numpy value and ends in a ZeroDivisionError as a Python number;
\* m5_flat_sed raises nothing else but the KeyError of a band outside the table.
C7_ErrorsAreKeyOrZeroDivision ==
    LET zero == last.args.FWHMeff.v = 0 /\ ~last.args.FWHMeff.np
    IN  /\ LastScale => last.out.err = (IF zero THEN "ZeroDivisionError" ELSE "none")
        /\ LastFlat => last.out.err =
                         (IF last.args.visitFilter \notin Bands THEN "KeyError"
                          ELSE IF zero THEN "ZeroDivisionError" ELSE "none")
        /\ (last.fn # "none" /\ last.out.err = "none") => last.out.m5.k \in {"num", "nan", "inf"}

\* a call for a band of the table with a Python FWHMeff of 0, a negative expTime and an
\* airmass below 1 has ended in a ZeroDivisionError
C7_Witness ==
    /\ LastFlat /\ last.args.visitFilter \in Bands
    /\ last.args.FWHMeff = [v |-> 0, np |-> FALSE]
    /\ last.args.expTime < 0 /\ last.args.airmass < 1000
    /\ last.out.err = "ZeroDivisionError"

\* the outcome of the call that has just ended, had its airmass been am
AirmassOutcome(am) ==
    IF LastFlat THEN FlatRun(attrs, [last.args EXCEPT !.airmass = am])
    ELSE ScaleOf(last.args, last.args.nexp, am)

\* the extinction coefficient the call that has just ended used
LastkAtm ==
    IF LastFlat THEN Table.kAtm[last.args.visitFilter] ELSE last.args.consts.kAtm

\* C8 as stated: whatever the other inputs (any kAtm a caller supplies, any nexp), a larger
\* airmass gives no larger m5; read in the claim's favour, of the m5 that are numbers.
C8_AirmassMonotone ==
    (last.fn # "none" /\ last.out.err = "none" /\ last.out.m5.k # "nan") =>
        \A am \in Airmasses :
            last.args.airmass <= am => MagLE(AirmassOutcome(am).m5, last.out.m5)

\* C8 as amended: a larger airmass gives no larger m5 when kAtm >= 0 (as for every band of
\* the table) and the m5 is a number (not NaN).
C8_AirmassMonotoneGivenExtinction ==
    (last.fn # "none" /\ last.out.err = "none" /\ LastkAtm >= 0 /\ last.out.m5.k # "nan") =>
        \A am \in Airmasses :
            last.args.airmass <= am => MagLE(AirmassOutcome(am).m5, last.out.m5)

\* a two-exposure call of m5_scale with kAtm > 0 has returned a finite m5 at airmass 0.9,
\* and a strictly smaller one is what it returns at airmass 1.5
C8_Witness ==
    /\ LastScale /\ last.args.consts.kAtm > 0 /\ last.args.airmass = 900 /\ last.args.nexp = 2
    /\ last.out.err = "none" /\ last.out.m5.k = "num"
    /\ AirmassOutcome(1500).m5.k = "num" /\ AirmassOutcome(1500).m5.v < last.out.m5.v

\* C9: with concurrent callers the block of line 92 is entered exactly once in all: once
\* any call has got past line 92, it has been entered by one call and no other.
C9_InitExactlyOnce ==
    (called \/ \E t \in Threads : call[t].pc \notin {"idle", "l92"}) => Len(inits) = 1

\* C10: a call that found hasattr(m5_flat_sed, 'Cm') true and skipped the block finds all
\* five attributes set, and so never ends in an AttributeError.
C10_SkipFindsWholeTable ==
    /\ \A t \in Threads : (call[t].pc # "idle" /\ call[t].skipped) => DOMAIN attrs = AttrNames
    /\ LastFlat => last.out.err # "AttributeError"
====
